---- MODULE Spec2Model ----
(***************************************************************************)
(* ikat-api: the three client classes of the repository as a state machine *)
(*   "IkatV2"      src/src/ikat-v2.ts   (class IkatV2)                     *)
(*   "Ikat"        src/unnamed/part_000 (class Ikat, File based, with      *)
(*                 replace / deleteMultiple / uploadMultiple)              *)
(*   "IkatBuffer"  src/src/ikat.ts      (class Ikat, Buffer based, only    *)
(*                 upload / list / remove)                                 *)
(* and the full-flow test of src/unnamed/part_001 against a remote that    *)
(* stores files per bucket.                                                *)
(* A call runs in segments separated by its awaits: the read of the File   *)
(* (file.arrayBuffer) and the HTTP round trips.  The remote service and    *)
(* the File are the environment: their answers are chosen freely.          *)
(* Strings that are cut at '/' are sequences of one-character strings;     *)
(* messages are TLA+ strings.                                              *)
(***************************************************************************)
EXTENDS Integers, Sequences, FiniteSets, TLC

VARIABLES
    client,     \* the constructed client: this.key, this.origin, its class
    pc,         \* per call: "idle", "reading" (await file.arrayBuffer()),
                \*           "inflight" (await this.http...), "done"
    call,       \* per call: the operation called and its arguments
    iter,       \* per call: how many items the for loop of a batch has done
    results,    \* per call: the local array `results` of a batch operation
    outcome,    \* per call: what the promise of the call settled with
    log,        \* per call: the requests issued, each with the answer it got
    console,    \* per call: the keys console.warn was called with
    value,      \* the argument of a bare extractKey evaluation
    extracted,  \* ... and its result
    remote,     \* the remote service: the objects it stores in each bucket
    flow        \* the full-flow test: its step and the results it has kept

vars == <<client, pc, call, iter, results, outcome, log, console,
          value, extracted, remote, flow>>

-----------------------------------------------------------------------------
(* Bounds *)

MaxLen == 4          \* longest string given to a bare extractKey evaluation
MaxKeyLen == 2       \* longest key / oldUrl given to remove and replace
MaxItems == 2        \* longest list given to deleteMultiple / uploadMultiple

Procs == {1, 2}      \* calls that may be running on the one client
Chars == {"a", "b", "/"}

Strings(n) == UNION {[1..k -> Chars] : k \in 0..n}

-----------------------------------------------------------------------------
(* extractKey *)

includes(s, c) == \E i \in 1..Len(s) : s[i] = c

indexOf(s, c) == CHOOSE i \in 1..Len(s) : s[i] = c /\ \A j \in 1..(i-1) : s[j] # c

\* String.prototype.split with a one-character separator: the segments
\* between the separators, empty ones included.
RECURSIVE split(_, _)
split(s, c) ==
    IF ~includes(s, c) THEN <<s>>
    ELSE <<SubSeq(s, 1, indexOf(s, c) - 1)>>
            \o split(SubSeq(s, indexOf(s, c) + 1, Len(s)), c)

\* Array.prototype.pop(): the last element
pop(a) == a[Len(a)]

\* a slip: cut at the first '/' instead of the last
extractKeyAfterFirst(v) ==
    IF includes(v, "/") THEN SubSeq(v, indexOf(v, "/") + 1, Len(v)) ELSE v

\* a slip: the first segment instead of the last
extractKeyShift(v) == IF includes(v, "/") THEN split(v, "/")[1] ELSE v

extractKey(v) == IF includes(v, "/") THEN pop(split(v, "/")) ELSE v


-----------------------------------------------------------------------------
(* The client object *)

Versions == {"IkatV2", "Ikat", "IkatBuffer"}
ApiKeys == {"k1", "k2"}
Origins == {"", "o1"}        \* "" : no origin given (undefined), falsy
Buckets == {"b1", "b2"}

baseURL(version) ==
    IF version = "IkatV2" THEN "https://ikat.id" ELSE "https://api.ikat.id"

\* constructor: this.key = apiKey; this.origin = origin; axios.create({baseURL})
constructor(version, apiKey, origin) ==
    [version |-> version, key |-> apiKey, origin |-> origin,
     baseURL |-> baseURL(version)]

Operations(version) ==
    CASE version = "IkatV2" ->
            {"upload", "list", "remove", "replace", "deleteMultiple",
             "uploadMultiple", "deleteBucket"}
      [] version = "Ikat" ->
            {"upload", "list", "remove", "replace", "deleteMultiple",
             "uploadMultiple"}
      [] OTHER -> {"upload", "list", "remove"}

-----------------------------------------------------------------------------
(* Arguments *)

\* A File (or, for IkatBuffer, a Buffer with its name).  readable = FALSE is a
\* File whose arrayBuffer() promise rejects.
Files == [name : {"f1", "f2"}, readable : BOOLEAN]
NoFile == [name |-> "", readable |-> FALSE]
ReadError == "The requested file could not be read"

\* allowPublicAccess as passed: "undefined" when the caller omits it
Flags == {"undefined", "true", "false"}

\* oldUrl?: string
Absent == [present |-> FALSE, value |-> <<>>]
OldUrls == {Absent} \cup {[present |-> TRUE, value |-> s] : s \in Strings(MaxKeyLen)}

\* the keys and URLs of batch calls: a bare key, a URL, a URL ending in '/',
\* the empty string
KeyInputs == {<<"a">>, <<"b", "/", "a">>, <<"a", "/">>, <<>>}

Lists(S) == UNION {[1..k -> S] : k \in 0..MaxItems}

NoCall ==
    [op |-> "none", bucket |-> "", key |-> <<>>, keys |-> <<>>,
     file |-> NoFile, files |-> <<>>, oldUrl |-> Absent,
     allowPublicAccess |-> "undefined"]

-----------------------------------------------------------------------------
(* Requests and answers *)

\* a slip: the Origin header is always put, an undefined origin too
headersAlwaysOrigin(c) ==
    [xApiKey |-> c.key, hasOrigin |-> TRUE, Origin |-> c.origin]

\* headers: 'x-api-key': this.key, ...(this.origin && { Origin: this.origin })
headers(c) ==
    [xApiKey |-> c.key, hasOrigin |-> c.origin # "", Origin |-> c.origin]

NoRequestFields ==
    [key |-> <<>>, fileName |-> "", allowPublicAccess |-> "none"]

request(c, op, method, path, bucket, fields) ==
    [op |-> op, method |-> method, url |-> c.baseURL \o path, bucket |-> bucket,
     key |-> fields.key, fileName |-> fields.fileName,
     allowPublicAccess |-> fields.allowPublicAccess, headers |-> headers(c)]

\* a slip: private unless the caller says otherwise
flagSentPrivate(flag) == IF flag = "undefined" THEN "false" ELSE flag

\* allowPublicAccess = true by default; form.append(..., allowPublicAccess.toString())
flagSent(flag) == IF flag = "undefined" THEN "true" ELSE flag

\* a slip: the content is appended without its file name
uploadRequestUnnamed(c, bucket, file, flag) ==
    request(c, "upload", IF c.version = "IkatV2" THEN "POST" ELSE "PUT",
            "/upload/" \o bucket, bucket,
            [NoRequestFields EXCEPT
                !.fileName = "blob",
                !.allowPublicAccess =
                    IF c.version = "IkatV2" THEN flagSent(flag) ELSE "none"])

uploadRequest(c, bucket, file, flag) ==
    request(c, "upload", IF c.version = "IkatV2" THEN "POST" ELSE "PUT",
            "/upload/" \o bucket, bucket,
            [NoRequestFields EXCEPT
                !.fileName = file.name,
                !.allowPublicAccess =
                    IF c.version = "IkatV2" THEN flagSent(flag) ELSE "none"])

listRequest(c, bucket) ==
    request(c, "list", "GET", "/files/" \o bucket, bucket, NoRequestFields)

\* a slip: the key is sent as given
finalKeyRaw(version, key) == key

\* remove: const finalKey = extractKey(key)   (IkatBuffer sends key as given)
finalKey(version, key) ==
    IF version = "IkatBuffer" THEN key ELSE extractKey(key)

removeRequest(c, bucket, key) ==
    request(c, "remove", "POST", "/files/delete", bucket,
            [NoRequestFields EXCEPT !.key = finalKey(c.version, key)])

deleteBucketRequest(c, bucket) ==
    request(c, "deleteBucket", "POST", "/files/delete-bucket", bucket,
            NoRequestFields)

\* What the HTTP call settles with.  ok: res.data = data.  Otherwise the
\* rejection err: err.message = message, err.response present or not,
\* err.response.data.message present or not.
Bodies == {"d1", "d2"}
NoData == "none"

okAnswer(d) ==
    [ok |-> TRUE, data |-> d, hasResponse |-> TRUE, hasMessage |-> FALSE,
     remoteMessage |-> "", message |-> ""]

failAnswer(hasResponse, hasMessage, remoteMessage, message) ==
    [ok |-> FALSE, data |-> NoData, hasResponse |-> hasResponse,
     hasMessage |-> hasMessage, remoteMessage |-> remoteMessage,
     message |-> message]

StatusMessage == "Request failed with status code 403"

FailAnswers ==
    {failAnswer(TRUE, TRUE, "File type not allowed", StatusMessage),
     failAnswer(TRUE, TRUE, "", StatusMessage),
     failAnswer(TRUE, FALSE, "", StatusMessage),
     failAnswer(FALSE, FALSE, "", "Network Error")}

Answers == {okAnswer(d) : d \in Bodies} \cup FailAnswers

NoAnswer == failAnswer(FALSE, FALSE, "", "")

\* a slip: the transport message only
errorDetailsTransport(ans) == ans.message

\* const msg = err?.response?.data?.message || err.message
errorDetails(ans) ==
    IF ans.hasResponse /\ ans.hasMessage /\ ans.remoteMessage # ""
    THEN ans.remoteMessage
    ELSE ans.message

\* a slip: every operation tagged as upload
wrappedAsUpload(op, ans) == "[upload] " \o errorDetails(ans)

\* throw new Error(`[<op>] ${msg}`)
wrapped(op, ans) == "[" \o op \o "] " \o errorDetails(ans)

Pending == [kind |-> "pending", data |-> NoData, error |-> "", results |-> <<>>]
\* a slip: a success flag of the client's own instead of the body
returnedFlag(d) == [Pending EXCEPT !.kind = "return", !.data = "true"]

returned(d) == [Pending EXCEPT !.kind = "return", !.data = d]
returnedList(r) == [Pending EXCEPT !.kind = "return", !.results = r]
rejected(m) == [Pending EXCEPT !.kind = "reject", !.error = m]

\* try { return res.data } catch (err) { throw new Error(...) } of the
\* single-item operation op
settled(op, ans) ==
    IF ans.ok THEN returned(ans.data) ELSE rejected(wrapped(op, ans))

-----------------------------------------------------------------------------
(* A remote that stores files per bucket, as the full-flow test expects it *)
(* to answer.  Its code is not in the repository.                         *)

\* the key the remote accepts
ValidKey == "k1"

\* the keys the remote gives to the objects it stores
RemoteKeys == {<<"a">>, <<"b">>}

\* an object stored before the test runs
OldObject == [key |-> <<"b">>, original |-> "f2"]

NoStore == [b \in Buckets |-> {}]
Stores == [Buckets -> {{}, {OldObject}}]

\* the URL of the object stored under key in bucket
urlOf(bucket, key) == <<"h", "/", "u", "/", bucket, "/">> \o key

\* the locals of the full-flow test, before it has run
NoFlow ==
    [step |-> "none", bucket |-> "", file |-> NoFile, upload |-> NoData,
     uploadedKey |-> <<>>, list |-> NoData, deleted |-> NoData]

\* the answers the remote may give to the request req, each with the store
\* it leaves
handled(store, req) ==
    IF req.headers.xApiKey # ValidKey
    THEN {[ans |-> failAnswer(TRUE, TRUE, "Invalid API key", StatusMessage),
           store |-> store]}
    ELSE CASE req.op = "upload" ->
                {[ans |-> okAnswer([success |-> TRUE,
                                    url |-> urlOf(req.bucket, k),
                                    original |-> req.fileName]),
                  store |-> [store EXCEPT ![req.bucket] =
                                @ \cup {[key |-> k, original |-> req.fileName]}]] :
                    k \in RemoteKeys \ {o.key : o \in store[req.bucket]}}
           [] req.op = "list" ->
                {[ans |-> okAnswer([files |-> store[req.bucket]]), store |-> store]}
           [] req.op = "remove" ->
                IF \E o \in store[req.bucket] : o.key = req.key
                THEN {[ans |-> okAnswer([success |-> TRUE, key |-> req.key]),
                       store |-> [store EXCEPT ![req.bucket] =
                                     {o \in @ : o.key # req.key}]]}
                ELSE {[ans |-> failAnswer(TRUE, TRUE, "File not found", StatusMessage),
                       store |-> store]}

-----------------------------------------------------------------------------
(* The state of one call, and the code of the operations as functions on it. *)
(* st = [pc, iter, results, outcome, log, console]                            *)

Fresh ==
    [pc |-> "idle", iter |-> 0, results |-> <<>>, outcome |-> Pending,
     log |-> <<>>, console |-> <<>>]

\* this.http.<method>(...) is called: the request leaves, the call awaits it
sent(st, req) ==
    [st EXCEPT !.pc = "inflight",
               !.log = Append(@, [req |-> req, answered |-> FALSE, ans |-> NoAnswer])]

\* the awaited request settles with ans
answered(st, ans) ==
    [st EXCEPT !.log = [@ EXCEPT ![Len(@)] = [@ EXCEPT !.answered = TRUE, !.ans = ans]]]

finished(st, out) == [st EXCEPT !.pc = "done", !.outcome = out]

\* upload, from its call to its first await: file.arrayBuffer() in IkatV2 and
\* Ikat, the http.put in IkatBuffer (which is handed a Buffer)
uploadCalled(c, st, bucket, file, flag) ==
    IF c.version = "IkatBuffer"
    THEN sent(st, uploadRequest(c, bucket, file, flag))
    ELSE [st EXCEPT !.pc = "reading"]

\* upload, after file.arrayBuffer() resolved: the form is built and posted
uploadRead(c, st, bucket, file, flag) ==
    sent(st, uploadRequest(c, bucket, file, flag))

listCalled(c, st, bucket) == sent(st, listRequest(c, bucket))

\* a slip: an empty key is refused before any request
removeCalledValidating(c, st, bucket, key) ==
    IF finalKey(c.version, key) = <<>>
    THEN finished(st, rejected("[remove] key is required"))
    ELSE sent(st, removeRequest(c, bucket, key))

removeCalled(c, st, bucket, key) == sent(st, removeRequest(c, bucket, key))

deleteBucketCalled(c, st, bucket) == sent(st, deleteBucketRequest(c, bucket))

\* a slip: a failed request is sent once more
singleSettledRetry(c, st, cl, r) ==
    IF r.kind = "reject" /\ Len(st.log) < 2
    THEN sent(st, st.log[Len(st.log)].req)
    ELSE finished(st, r)

\* upload, list, remove, deleteBucket after their `await this.http...`
\* settled with r: return res.data, or throw from the catch
singleSettled(c, st, cl, r) == finished(st, r)

\* ---- replace

\* a slip: any oldUrl that was passed, the empty string too
truthyPresent(oldUrl) == oldUrl.present

\* if (oldUrl): undefined and '' are falsy
truthy(oldUrl) == oldUrl.present /\ oldUrl.value # <<>>

\* IkatV2: const key = extractKey(oldUrl); Ikat: oldUrl.split('/').pop()!
replaceKey(version, oldUrl) ==
    IF version = "IkatV2" THEN extractKey(oldUrl) ELSE pop(split(oldUrl, "/"))

\* a slip: no try around the removal
catchesNever(version) == FALSE

\* whether replace wraps `await this.remove(...)` in try / catch
catches(version) == version = "IkatV2"

\* if (process.env.NODE_ENV !== 'production') console.warn(...)
warned(st, key, env) ==
    IF env # "production"
    THEN [st EXCEPT !.console = Append(@, key)]
    ELSE st

\* a slip: the removal is started and not awaited
replaceCalledUnawaited(c, st, cl) ==
    IF truthy(cl.oldUrl)
    THEN uploadCalled(c,
             removeCalled(c, st, cl.bucket, replaceKey(c.version, cl.oldUrl.value)),
             cl.bucket, cl.file, cl.allowPublicAccess)
    ELSE uploadCalled(c, st, cl.bucket, cl.file, cl.allowPublicAccess)

replaceCalled(c, st, cl) ==
    IF truthy(cl.oldUrl)
    THEN removeCalled(c, st, cl.bucket, replaceKey(c.version, cl.oldUrl.value))
    ELSE uploadCalled(c, st, cl.bucket, cl.file, cl.allowPublicAccess)

\* replace, after `await this.remove({ bucket, key })` settled with r
replaceRemoved(c, st, cl, r, env) ==
    IF r.kind = "reject"
    THEN IF catches(c.version)
         THEN uploadCalled(c, warned(st, replaceKey(c.version, cl.oldUrl.value), env),
                           cl.bucket, cl.file, cl.allowPublicAccess)
         ELSE finished(st, r)
    ELSE uploadCalled(c, st, cl.bucket, cl.file, cl.allowPublicAccess)

\* ---- deleteMultiple

\* a slip: failed items are left out
deleteEntriesDropFailed(res, key, r) ==
    IF r.kind = "return" THEN Append(res, [key |-> key, success |-> TRUE]) ELSE res

\* a slip: a message of the client's own instead of the caught one
deleteEntriesGeneric(res, key, r) ==
    IF r.kind = "return"
    THEN Append(res, [key |-> key, success |-> TRUE])
    ELSE Append(res, [key |-> key, success |-> FALSE, error |-> "Failed to delete"])

\* results.push({ key, success: true }) / results.push({ key, success: false, error })
deleteEntries(res, key, r) ==
    IF r.kind = "return"
    THEN Append(res, [key |-> key, success |-> TRUE])
    ELSE Append(res, [key |-> key, success |-> FALSE, error |-> r.error])

\* a slip: the loop is left at the first failure
loopNextBreak(r, n, total) == r.kind # "reject" /\ n < total

\* for (const x of xs) { try { ... } catch { ... } }: whether another item
\* follows once n items are done, the last of which settled with r
loopNext(r, n, total) == n < total

\* a slip: the first two removals are started together
deleteMultipleLoopAhead(c, st, cl, r) ==
    IF loopNext(r, st.iter, Len(cl.keys))
    THEN IF st.iter = 0 /\ Len(cl.keys) >= 2
         THEN removeCalled(c,
                  removeCalled(c, st, cl.bucket, extractKey(cl.keys[1])),
                  cl.bucket, extractKey(cl.keys[2]))
         ELSE removeCalled(c, st, cl.bucket, extractKey(cl.keys[st.iter + 1]))
    ELSE finished(st, returnedList(st.results))

\* the head of the for loop of deleteMultiple, with st.iter items done
deleteMultipleLoop(c, st, cl, r) ==
    IF loopNext(r, st.iter, Len(cl.keys))
    THEN removeCalled(c, st, cl.bucket, extractKey(cl.keys[st.iter + 1]))
    ELSE finished(st, returnedList(st.results))

\* a slip: the older class records the key as it was given
deleteMultipleRemovedLegacyRaw(c, st, cl, r) ==
    deleteMultipleLoop(c,
        [st EXCEPT !.results =
                       deleteEntries(@, IF c.version = "Ikat"
                                        THEN cl.keys[st.iter + 1]
                                        ELSE extractKey(cl.keys[st.iter + 1]), r),
                   !.iter = @ + 1],
        cl, r)

\* a slip: the entry records the key as the caller gave it
deleteMultipleRemovedRaw(c, st, cl, r) ==
    deleteMultipleLoop(c,
        [st EXCEPT !.results = deleteEntries(@, cl.keys[st.iter + 1], r),
                   !.iter = @ + 1],
        cl, r)

\* a slip: the first removal that fails is tried once more
deleteMultipleRemovedRetry(c, st, cl, r) ==
    IF r.kind = "reject" /\ Len(st.log) = st.iter + 1
    THEN removeCalled(c, st, cl.bucket, extractKey(cl.keys[st.iter + 1]))
    ELSE deleteMultipleLoop(c,
             [st EXCEPT !.results =
                            deleteEntries(@, extractKey(cl.keys[st.iter + 1]), r),
                        !.iter = @ + 1],
             cl, r)

\* deleteMultiple, after `await this.remove({ bucket, key })` settled with r
deleteMultipleRemoved(c, st, cl, r) ==
    deleteMultipleLoop(c,
        [st EXCEPT !.results = deleteEntries(@, extractKey(cl.keys[st.iter + 1]), r),
                   !.iter = @ + 1],
        cl, r)

RECURSIVE deleteMultipleRun(_, _, _, _)
\* deleteMultiple of client c from the call state st on, its removals
\* settling with the answers as, one after the other
deleteMultipleRun(c, st, cl, as) ==
    IF st.pc # "inflight" \/ as = <<>>
    THEN st
    ELSE deleteMultipleRun(c,
             deleteMultipleRemoved(c, answered(st, Head(as)), cl,
                                   settled("remove", Head(as))),
             cl, Tail(as))

\* ---- uploadMultiple

\* a slip: a failed upload is recorded as a success
uploadEntriesAllTrue(res, file, r) ==
    Append(res, [file |-> file.name, success |-> TRUE, data |-> r.data])

\* results.push({ file: file.name, success: true, data: res }) /
\* results.push({ file: file.name, success: false, error })
uploadEntries(res, file, r) ==
    IF r.kind = "return"
    THEN Append(res, [file |-> file.name, success |-> TRUE, data |-> r.data])
    ELSE Append(res, [file |-> file.name, success |-> FALSE, error |-> r.error])

uploadMultipleLoop(c, st, cl, r) ==
    IF loopNext(r, st.iter, Len(cl.files))
    THEN uploadCalled(c, st, cl.bucket, cl.files[st.iter + 1], cl.allowPublicAccess)
    ELSE finished(st, returnedList(st.results))

\* uploadMultiple, after `await this.upload({ bucket, file, ... })` settled with r
uploadMultipleUploaded(c, st, cl, r) ==
    uploadMultipleLoop(c,
        [st EXCEPT !.results = uploadEntries(@, cl.files[st.iter + 1], r),
                   !.iter = @ + 1],
        cl, r)

\* ---- a call from its entry to its end

\* the operation cl.op is entered with the arguments cl, up to its first await
entered(c, st, cl) ==
    CASE cl.op = "replace" -> replaceCalled(c, st, cl)
      [] cl.op = "deleteMultiple" -> deleteMultipleLoop(c, st, cl, Pending)
      [] cl.op = "uploadMultiple" -> uploadMultipleLoop(c, st, cl, Pending)

\* the File the call is reading or uploading
fileOf(st, cl) ==
    IF cl.op = "uploadMultiple" THEN cl.files[st.iter + 1] ELSE cl.file

\* `await file.arrayBuffer()` of the upload the call is in has settled.  When
\* it rejects, upload rejects with that error as it is (the await is outside
\* the try).
arrayBufferSettled(c, st, cl) ==
    IF fileOf(st, cl).readable
    THEN uploadRead(c, st, cl.bucket, fileOf(st, cl), cl.allowPublicAccess)
    ELSE IF cl.op = "uploadMultiple"
         THEN uploadMultipleUploaded(c, st, cl, rejected(ReadError))
         ELSE finished(st, rejected(ReadError))

\* the request the call awaits has settled with ans; the call runs on to its
\* next await or to its end
responded(c, st, cl, ans, env) ==
    LET op == st.log[Len(st.log)].req.op
        r == settled(op, ans)
        st1 == answered(st, ans)
    IN  CASE cl.op \in {"upload", "list", "remove", "deleteBucket"} ->
                singleSettled(c, st1, cl, r)
          [] cl.op = "replace" /\ op = "remove" ->
                replaceRemoved(c, st1, cl, r, env)
          [] cl.op = "replace" /\ op = "upload" ->
                finished(st1, r)
          [] cl.op = "deleteMultiple" ->
                deleteMultipleRemoved(c, st1, cl, r)
          [] cl.op = "uploadMultiple" ->
                uploadMultipleUploaded(c, st1, cl, r)

RECURSIVE alone(_, _, _, _)
\* the call cl of client c run on from st with nothing beside it, its
\* requests settling with the answers as one after the other
alone(c, st, cl, as) ==
    IF st.pc = "reading"
    THEN alone(c, arrayBufferSettled(c, st, cl), cl, as)
    ELSE IF st.pc = "inflight" /\ as # <<>>
         THEN alone(c, responded(c, st, cl, Head(as), "production"), cl, Tail(as))
         ELSE st

-----------------------------------------------------------------------------
(* Actions *)

\* a slip: results is a field of the client, shared by its calls
becomesShared(p, st) ==
    /\ pc' = [pc EXCEPT ![p] = st.pc]
    /\ iter' = [iter EXCEPT ![p] = st.iter]
    /\ results' = [q \in Procs |-> st.results]
    /\ outcome' = [outcome EXCEPT ![p] = st.outcome]
    /\ log' = [log EXCEPT ![p] = st.log]
    /\ console' = [console EXCEPT ![p] = st.console]

state(p) ==
    [pc |-> pc[p], iter |-> iter[p], results |-> results[p],
     outcome |-> outcome[p], log |-> log[p], console |-> console[p]]

becomes(p, st) ==
    /\ pc' = [pc EXCEPT ![p] = st.pc]
    /\ iter' = [iter EXCEPT ![p] = st.iter]
    /\ results' = [results EXCEPT ![p] = st.results]
    /\ outcome' = [outcome EXCEPT ![p] = st.outcome]
    /\ log' = [log EXCEPT ![p] = st.log]
    /\ console' = [console EXCEPT ![p] = st.console]

called(p, cl) == call' = [call EXCEPT ![p] = cl]

\* the Files a client can be handed: IkatBuffer takes a Buffer, which is read
FilesOf(version) ==
    IF version = "IkatBuffer" THEN {f \in Files : f.readable} ELSE Files

\* allowPublicAccess is a parameter of IkatV2 only
FlagsOf(version) == IF version = "IkatV2" THEN Flags ELSE {"undefined"}

\* the file the call is uploading now
file(p) ==
    IF call[p].op = "uploadMultiple"
    THEN call[p].files[iter[p] + 1]
    ELSE call[p].file

last(p) == log[p][Len(log[p])]

upload(p) ==
    /\ pc[p] = "idle"
    /\ \E b \in Buckets, f \in FilesOf(client.version), g \in FlagsOf(client.version) :
          /\ called(p, [NoCall EXCEPT !.op = "upload", !.bucket = b, !.file = f,
                                      !.allowPublicAccess = g])
          /\ becomes(p, uploadCalled(client, state(p), b, f, g))
    /\ UNCHANGED <<client, value, extracted, remote, flow>>

list(p) ==
    /\ pc[p] = "idle"
    /\ \E b \in Buckets :
          /\ called(p, [NoCall EXCEPT !.op = "list", !.bucket = b])
          /\ becomes(p, listCalled(client, state(p), b))
    /\ UNCHANGED <<client, value, extracted, remote, flow>>

\* a slip: remove drops the configured origin
removeForgetsOrigin(p) ==
    /\ pc[p] = "idle"
    /\ \E b \in Buckets, k \in Strings(MaxKeyLen) :
          /\ called(p, [NoCall EXCEPT !.op = "remove", !.bucket = b, !.key = k])
          /\ becomes(p, removeCalled(client, state(p), b, k))
    /\ client' = [client EXCEPT !.origin = ""]
    /\ UNCHANGED <<value, extracted, remote, flow>>

remove(p) ==
    /\ pc[p] = "idle"
    /\ \E b \in Buckets, k \in Strings(MaxKeyLen) :
          /\ called(p, [NoCall EXCEPT !.op = "remove", !.bucket = b, !.key = k])
          /\ becomes(p, removeCalled(client, state(p), b, k))
    /\ UNCHANGED <<client, value, extracted, remote, flow>>

deleteBucket(p) ==
    /\ pc[p] = "idle"
    /\ "deleteBucket" \in Operations(client.version)
    /\ \E b \in Buckets :
          /\ called(p, [NoCall EXCEPT !.op = "deleteBucket", !.bucket = b])
          /\ becomes(p, deleteBucketCalled(client, state(p), b))
    /\ UNCHANGED <<client, value, extracted, remote, flow>>

replace(p) ==
    /\ pc[p] = "idle"
    /\ "replace" \in Operations(client.version)
    /\ \E b \in Buckets, f \in Files, u \in OldUrls, g \in FlagsOf(client.version) :
          LET cl == [NoCall EXCEPT !.op = "replace", !.bucket = b, !.file = f,
                                   !.oldUrl = u, !.allowPublicAccess = g]
          IN  /\ called(p, cl)
              /\ becomes(p, replaceCalled(client, state(p), cl))
    /\ UNCHANGED <<client, value, extracted, remote, flow>>

deleteMultiple(p) ==
    /\ pc[p] = "idle"
    /\ "deleteMultiple" \in Operations(client.version)
    /\ \E b \in Buckets, ks \in Lists(KeyInputs) :
          LET cl == [NoCall EXCEPT !.op = "deleteMultiple", !.bucket = b, !.keys = ks]
          IN  /\ called(p, cl)
              /\ becomes(p, deleteMultipleLoop(client, state(p), cl, Pending))
    /\ UNCHANGED <<client, value, extracted, remote, flow>>

uploadMultiple(p) ==
    /\ pc[p] = "idle"
    /\ "uploadMultiple" \in Operations(client.version)
    /\ \E b \in Buckets, fs \in Lists(Files), g \in FlagsOf(client.version) :
          LET cl == [NoCall EXCEPT !.op = "uploadMultiple", !.bucket = b,
                                   !.files = fs, !.allowPublicAccess = g]
          IN  /\ called(p, cl)
              /\ becomes(p, uploadMultipleLoop(client, state(p), cl, Pending))
    /\ UNCHANGED <<client, value, extracted, remote, flow>>

\* `await file.arrayBuffer()` of the upload the call is in settles.  When it
\* rejects, upload rejects with that error as it is (the await is outside try).
arrayBuffer(p) ==
    /\ pc[p] = "reading"
    /\ becomes(p, arrayBufferSettled(client, state(p), call[p]))
    /\ UNCHANGED <<client, call, value, extracted, remote, flow>>

\* the request the call awaits settles with an answer of the remote (or of
\* the transport), and the call runs on to its next await or to its end
response(p) ==
    /\ pc[p] = "inflight"
    /\ \E ans \in Answers, env \in {"production", "development"} :
          becomes(p, responded(client, state(p), call[p], ans, env))
    /\ UNCHANGED <<client, call, value, extracted, remote, flow>>

\* the caller has taken the result; the client is ready for another call
settle(p) ==
    /\ pc[p] = "done"
    /\ called(p, NoCall)
    /\ becomes(p, Fresh)
    /\ UNCHANGED <<client, value, extracted, remote, flow>>

\* a bare evaluation of extractKey
evaluate ==
    /\ ~extracted.done
    /\ extracted' = [extracted EXCEPT !.done = TRUE, !.key = extractKey(value)]
    /\ UNCHANGED <<client, pc, call, iter, results, outcome, log, console, value,
                   remote, flow>>

\* extractKey of a key that extractKey gave, as remove does with the key that
\* deleteMultiple and replace hand it
reevaluate ==
    /\ extracted.done /\ ~extracted.again
    /\ extracted' = [extracted EXCEPT !.again = TRUE, !.key2 = extractKey(extracted.key)]
    /\ UNCHANGED <<client, pc, call, iter, results, outcome, log, console, value,
                   remote, flow>>

-----------------------------------------------------------------------------
(* Specifications *)

Clients == {constructor(v, k, o) : v \in Versions, k \in ApiKeys, o \in Origins}

NotExtracted == [done |-> FALSE, key |-> <<>>, again |-> FALSE, key2 |-> <<>>]

Idle ==
    /\ pc = [p \in Procs |-> "idle"]
    /\ call = [p \in Procs |-> NoCall]
    /\ iter = [p \in Procs |-> 0]
    /\ results = [p \in Procs |-> <<>>]
    /\ outcome = [p \in Procs |-> Pending]
    /\ log = [p \in Procs |-> <<>>]
    /\ console = [p \in Procs |-> <<>>]

\* one call at a time on a client of any of the three classes
Init ==
    /\ client \in Clients
    /\ Idle
    /\ value = <<>>
    /\ extracted = NotExtracted
    /\ remote = NoStore
    /\ flow = NoFlow

Step(p) ==
    \/ upload(p)
    \/ list(p)
    \/ remove(p)
    \/ deleteBucket(p)
    \/ replace(p)
    \/ deleteMultiple(p)
    \/ uploadMultiple(p)
    \/ arrayBuffer(p)
    \/ response(p)
    \/ settle(p)

Next == Step(1)

Spec == Init /\ [][Next]_vars

\* a URL, a bare key and a path ending in '/'
Examples ==
    {<<"s", ":", "/", "/", "h", "/", "u", "/", "b", "/", "p", ".", "j">>,
     <<"p", ".", "j">>,
     <<"a", "/", "b", "/">>}

\* extractKey alone, on every string up to MaxLen and on the examples
KeyInit ==
    /\ client = constructor("IkatV2", "k1", "")
    /\ Idle
    /\ value \in Strings(MaxLen) \cup Examples
    /\ extracted = NotExtracted
    /\ remote = NoStore
    /\ flow = NoFlow

KeyNext ==
    \/ evaluate
    \/ reevaluate

KeySpec == KeyInit /\ [][KeyNext]_vars

\* replace called with the arguments cl
replaceWith(p, cl) ==
    /\ pc[p] = "idle"
    /\ "replace" \in Operations(client.version)
    /\ called(p, cl)
    /\ becomes(p, replaceCalled(client, state(p), cl))
    /\ UNCHANGED <<client, value, extracted, remote, flow>>

replaceFirst ==
    \E b \in Buckets, f \in Files, k \in KeyInputs, g \in FlagsOf(client.version) :
        replaceWith(1, [NoCall EXCEPT !.op = "replace", !.bucket = b, !.file = f,
                                      !.oldUrl = [present |-> TRUE, value |-> k],
                                      !.allowPublicAccess = g])

\* the same call once more
replaceSecond ==
    /\ call[1].op = "replace"
    /\ replaceWith(2, call[1])

\* two runs of IkatV2.replace with the same arguments, each with its own
\* answers of the remote
TwinInit ==
    /\ client = constructor("IkatV2", "k1", "o1")
    /\ Idle
    /\ value = <<>>
    /\ extracted = NotExtracted
    /\ remote = NoStore
    /\ flow = NoFlow

TwinNext ==
    \/ replaceFirst
    \/ replaceSecond
    \/ \E p \in Procs : arrayBuffer(p)
    \/ \E p \in Procs : response(p)

TwinSpec == TwinInit /\ [][TwinNext]_vars

\* the calls that are made side by side: batch and compose calls of IkatV2
PairCalls ==
    {[NoCall EXCEPT !.op = "deleteMultiple", !.bucket = "b1",
                    !.keys = <<<<"b", "/", "a">>, <<"a">>>>],
     [NoCall EXCEPT !.op = "uploadMultiple", !.bucket = "b2",
                    !.files = <<[name |-> "f1", readable |-> TRUE],
                                [name |-> "f2", readable |-> TRUE]>>,
                    !.allowPublicAccess = "false"],
     [NoCall EXCEPT !.op = "uploadMultiple", !.bucket = "b1",
                    !.files = <<[name |-> "f2", readable |-> FALSE],
                                [name |-> "f1", readable |-> TRUE]>>],
     [NoCall EXCEPT !.op = "replace", !.bucket = "b1",
                    !.file = [name |-> "f1", readable |-> TRUE],
                    !.oldUrl = [present |-> TRUE, value |-> <<"b", "/", "a">>]]}

\* a batch or compose call is made while the other call may be running
invoke(p) ==
    /\ pc[p] = "idle"
    /\ \E cl \in PairCalls :
          /\ called(p, cl)
          /\ becomes(p, entered(client, state(p), cl))
    /\ UNCHANGED <<client, value, extracted, remote, flow>>

\* two calls on one IkatV2 client, their awaits settling in any order
PairInit ==
    /\ client = constructor("IkatV2", "k1", "o1")
    /\ Idle
    /\ value = <<>>
    /\ extracted = NotExtracted
    /\ remote = NoStore
    /\ flow = NoFlow

PairNext ==
    \/ \E p \in Procs : invoke(p)
    \/ \E p \in Procs : arrayBuffer(p)
    \/ \E p \in Procs : response(p)

PairSpec == PairInit /\ [][PairNext]_vars

\* ---- the full-flow test: upload, list, remove on one client

\* const upload = await ikat.upload({ bucket, file, name, type })
testUpload ==
    /\ flow.step = "start" /\ pc[1] = "idle"
    /\ called(1, [NoCall EXCEPT !.op = "upload", !.bucket = flow.bucket,
                                !.file = flow.file])
    /\ becomes(1, uploadCalled(client, state(1), flow.bucket, flow.file, "undefined"))
    /\ flow' = [flow EXCEPT !.step = "upload"]
    /\ UNCHANGED <<client, value, extracted, remote>>

\* the remote answers the request in flight
serve ==
    /\ pc[1] = "inflight"
    /\ \E res \in handled(remote, last(1).req) :
          /\ becomes(1, responded(client, state(1), call[1], res.ans, "production"))
          /\ remote' = res.store
    /\ UNCHANGED <<client, call, value, extracted, flow>>

\* const uploadedKey = upload.url.split('/').pop();
\* const list = await ikat.list(bucket)
testList ==
    /\ flow.step = "upload" /\ pc[1] = "done" /\ outcome[1].kind = "return"
    /\ flow' = [flow EXCEPT !.step = "list", !.upload = outcome[1].data,
                            !.uploadedKey = pop(split(outcome[1].data.url, "/"))]
    /\ called(1, [NoCall EXCEPT !.op = "list", !.bucket = flow.bucket])
    /\ becomes(1, listCalled(client, Fresh, flow.bucket))
    /\ UNCHANGED <<client, value, extracted, remote>>

\* const deleted = await ikat.remove({ bucket, key: uploadedKey })
testRemove ==
    /\ flow.step = "list" /\ pc[1] = "done" /\ outcome[1].kind = "return"
    /\ flow' = [flow EXCEPT !.step = "remove", !.list = outcome[1].data]
    /\ called(1, [NoCall EXCEPT !.op = "remove", !.bucket = flow.bucket,
                                !.key = flow.uploadedKey])
    /\ becomes(1, removeCalled(client, Fresh, flow.bucket, flow.uploadedKey))
    /\ UNCHANGED <<client, value, extracted, remote>>

\* remove has settled: the test looks at `deleted`
testEnd ==
    /\ flow.step = "remove" /\ pc[1] = "done"
    /\ flow' = [flow EXCEPT !.step = "end", !.deleted = outcome[1]]
    /\ called(1, NoCall)
    /\ becomes(1, Fresh)
    /\ UNCHANGED <<client, value, extracted, remote>>

\* the test runs on a client of one of the classes that talk to api.ikat.id,
\* with a valid or an invalid key, against a remote with or without objects
FlowInit ==
    /\ client \in {constructor(v, k, o) :
                      v \in {"IkatBuffer", "Ikat"}, k \in ApiKeys, o \in Origins}
    /\ Idle
    /\ value = <<>>
    /\ extracted = NotExtracted
    /\ remote \in Stores
    /\ flow \in {[NoFlow EXCEPT !.step = "start", !.bucket = b, !.file = f] :
                    b \in Buckets, f \in FilesOf(client.version)}

FlowNext ==
    \/ testUpload
    \/ arrayBuffer(1)
    \/ serve
    \/ testList
    \/ testRemove
    \/ testEnd

FlowSpec == FlowInit /\ [][FlowNext]_vars

\* ... every await settling in the end: a File read resolves or rejects, and
\* each request that was issued completes
PairFairSpec ==
    /\ PairSpec
    /\ \A p \in Procs : WF_vars(arrayBuffer(p)) /\ WF_vars(response(p))

-----------------------------------------------------------------------------
(* Properties *)

Singles == {"upload", "list", "remove", "deleteBucket"}

\* the call p was given a non-empty oldUrl
HasOldUrl(p) == call[p].oldUrl.present /\ call[p].oldUrl.value # <<>>

\* what upload({ bucket, file, allowPublicAccess }) of the call's own
\* arguments sends ...
OwnUploadRequest(p) ==
    uploadRequest(client, call[p].bucket, call[p].file, call[p].allowPublicAccess)

\* ... and what it settles with when its request, if the File could be read
\* and the request was sent, got the answer ans
OwnUploadOutcome(p, ans) ==
    IF call[p].file.readable THEN settled("upload", ans) ELSE rejected(ReadError)

\* replace of class `version`, called with a non-empty oldUrl, has sent the
\* deletion request first and, once that request has settled either way, is
\* in the upload of the new file; it ends only with that upload, whose
\* request is the second and last request, and with that upload's result
GoesOnToUpload(version) ==
    \A p \in Procs :
        (client.version = version /\ call[p].op = "replace" /\ HasOldUrl(p)) =>
            /\ Len(log[p]) >= 1 /\ log[p][1].req.op = "remove"
            /\ pc[p] = "done" =>
                /\ log[p][1].answered
                /\ IF call[p].file.readable
                   THEN /\ Len(log[p]) = 2
                        /\ log[p][2].req = OwnUploadRequest(p)
                        /\ outcome[p] = OwnUploadOutcome(p, log[p][2].ans)
                   ELSE /\ Len(log[p]) = 1
                        /\ outcome[p] = OwnUploadOutcome(p, NoAnswer)

ReplaceLegacyUploadsWhateverDeletion == GoesOnToUpload("Ikat")

\* C3: replace called without an oldUrl (absent or the empty string) never
\* sends a deletion request: it sends nothing but the one request of
\* upload({ bucket, file, ... }) and settles exactly as that upload does.
ReplaceWithoutOldUrlIsUpload ==
    \A p \in Procs :
        (call[p].op = "replace" /\ ~HasOldUrl(p)) =>
            /\ \A i \in 1..Len(log[p]) : log[p][i].req.op # "remove"
            /\ Len(log[p]) <= 1
            /\ Len(log[p]) = 1 => log[p][1].req = OwnUploadRequest(p)
            /\ console[p] = <<>>
            /\ pc[p] = "done" =>
                /\ call[p].file.readable => Len(log[p]) = 1
                /\ outcome[p] =
                      OwnUploadOutcome(p, IF Len(log[p]) = 1 THEN log[p][1].ans
                                                              ELSE NoAnswer)

\* C3 witness: a replace given the empty string as oldUrl has returned after
\* its single upload request
ReplaceWithEmptyOldUrlReturned ==
    \E p \in Procs :
        /\ call[p].op = "replace"
        /\ call[p].oldUrl.present /\ call[p].oldUrl.value = <<>>
        /\ pc[p] = "done" /\ Len(log[p]) = 1
        /\ log[p][1].req.op = "upload"
        /\ outcome[p].kind = "return"

\* C4: deleteMultiple(bucket, keys) returns a list as long as keys whose
\* entry i has key = extractKey(keys[i]), whichever deletions fail.
DeleteMultipleKeepsEveryKeyInOrder ==
    \A p \in Procs :
        (call[p].op = "deleteMultiple" /\ pc[p] = "done") =>
            /\ outcome[p].kind = "return"
            /\ Len(outcome[p].results) = Len(call[p].keys)
            /\ \A i \in 1..Len(call[p].keys) :
                  outcome[p].results[i].key = extractKey(call[p].keys[i])

\* C4 witness: a deleteMultiple of a URL and then a different key, the first
\* of which failed, has returned
DeleteMultipleReturnedWithFailure ==
    \E p \in Procs :
        /\ call[p].op = "deleteMultiple" /\ pc[p] = "done"
        /\ Len(call[p].keys) >= 2
        /\ call[p].keys[1] = <<"b", "/", "a">> /\ call[p].keys[2] = <<"a", "/">>
        /\ ~log[p][1].ans.ok
        /\ Len(outcome[p].results) = Len(call[p].keys)

\* C5: in deleteMultiple every item is attempted, entry i has success = TRUE
\* exactly when the deletion request of item i succeeded, and the call
\* returns (never rejects) for every pattern of failures.
DeleteMultipleIsolatesFailures ==
    \A p \in Procs :
        (call[p].op = "deleteMultiple" /\ pc[p] = "done") =>
            /\ outcome[p].kind = "return"
            /\ Len(log[p]) = Len(call[p].keys)
            /\ Len(outcome[p].results) >= Len(call[p].keys)
            /\ \A i \in 1..Len(call[p].keys) :
                  /\ log[p][i].req.op = "remove"
                  /\ log[p][i].req.key = extractKey(call[p].keys[i])
                  /\ log[p][i].answered
                  /\ outcome[p].results[i].success = log[p][i].ans.ok

\* C5 witness: a deleteMultiple whose first deletion failed and whose second
\* succeeded has returned
DeleteMultipleWentOnAfterFailure ==
    \E p \in Procs :
        /\ call[p].op = "deleteMultiple" /\ pc[p] = "done"
        /\ Len(log[p]) >= 2
        /\ ~log[p][1].ans.ok /\ log[p][2].ans.ok
        /\ ~outcome[p].results[1].success /\ outcome[p].results[2].success

\* among the first i files, those that were read and so had a request sent
Sent(fs, i) == Cardinality({j \in 1..i : fs[j].readable})

\* C6: uploadMultiple(bucket, files) returns one entry per file in input
\* order, entry i carrying files[i].name and success = TRUE exactly when the
\* upload of files[i] succeeded; every file is attempted and the call
\* returns (never rejects) for every pattern of failures.
UploadMultipleIsolatesFailures ==
    \A p \in Procs :
        (call[p].op = "uploadMultiple" /\ pc[p] = "done") =>
            LET fs == call[p].files
                res == outcome[p].results
            IN  /\ outcome[p].kind = "return"
                /\ Len(res) = Len(fs)
                /\ Len(log[p]) = Sent(fs, Len(fs))
                /\ \A i \in 1..Len(fs) :
                      /\ res[i].file = fs[i].name
                      /\ fs[i].readable =>
                            /\ log[p][Sent(fs, i)].req.op = "upload"
                            /\ log[p][Sent(fs, i)].req.fileName = fs[i].name
                      /\ res[i].success =
                            (fs[i].readable /\ log[p][Sent(fs, i)].ans.ok)

\* C6 witness: an uploadMultiple whose first upload was refused by the remote
\* and whose second succeeded has returned
UploadMultipleWentOnAfterFailure ==
    \E p \in Procs :
        /\ call[p].op = "uploadMultiple" /\ pc[p] = "done"
        /\ Len(log[p]) >= 2
        /\ ~log[p][1].ans.ok /\ log[p][2].ans.ok
        /\ ~outcome[p].results[1].success /\ outcome[p].results[2].success

\* the call p is a single-item operation whose one request has failed
SingleFailed(p) ==
    /\ call[p].op \in Singles
    /\ pc[p] = "done"
    /\ Len(log[p]) = 1
    /\ ~log[p][1].ans.ok

\* C7: when the request of upload, list, remove or deleteBucket fails, the
\* operation rejects with the message "[" + its own name + "] " + details,
\* the details being a message of the failure.
SingleOpErrorsAreTagged ==
    \A p \in Procs :
        SingleFailed(p) =>
            /\ outcome[p].kind = "reject"
            /\ \E d \in {log[p][1].ans.remoteMessage, log[p][1].ans.message} :
                  outcome[p].error = "[" \o call[p].op \o "] " \o d

\* C7 witness: a deleteBucket whose request failed in the transport has
\* rejected
DeleteBucketRejected ==
    \E p \in Procs :
        /\ SingleFailed(p)
        /\ call[p].op = "deleteBucket"
        /\ ~log[p][1].ans.hasResponse
        /\ outcome[p] = rejected("[deleteBucket] Network Error")

\* C8 as stated: the details are the message field of the response body
\* whenever the failed response carries one, and the transport error message
\* otherwise.
DetailsAreRemoteMessageWheneverCarried ==
    \A p \in Procs :
        SingleFailed(p) =>
            LET a == log[p][1].ans
            IN  outcome[p].error =
                    "[" \o call[p].op \o "] " \o
                        (IF a.hasResponse /\ a.hasMessage THEN a.remoteMessage
                                                          ELSE a.message)

\* C8 (amended): the details are the message field of the response body
\* whenever the failed response carries a non-empty one, and the transport
\* error message otherwise (also when the message field is the empty string).
DetailsAreRemoteMessageWhenNonEmpty ==
    \A p \in Procs :
        SingleFailed(p) =>
            LET a == log[p][1].ans
            IN  outcome[p].error =
                    "[" \o call[p].op \o "] " \o
                        (IF a.hasResponse /\ a.hasMessage /\ a.remoteMessage # ""
                         THEN a.remoteMessage
                         ELSE a.message)

\* C8 witness: an upload of the Buffer based Ikat that the remote refused
\* with its own message has rejected with that message
UploadRejectedWithRemoteMessage ==
    \E p \in Procs :
        /\ SingleFailed(p)
        /\ client.version = "IkatBuffer" /\ call[p].op = "upload"
        /\ log[p][1].ans.remoteMessage = "File type not allowed"
        /\ outcome[p] = rejected("[upload] File type not allowed")

\* C9: in every client class, the key remove sends in its delete request is
\* extractKey of the key it was given.
RemoveSendsExtractedKey ==
    \A p \in Procs :
        (call[p].op = "remove" /\ Len(log[p]) >= 1) =>
            log[p][1].req.key = extractKey(call[p].key)

\* the index of the last c in s, 0 when there is none
lastIndexOf(s, c) ==
    IF includes(s, c)
    THEN CHOOSE i \in 1..Len(s) : s[i] = c /\ \A j \in (i+1)..Len(s) : s[j] # c
    ELSE 0

\* C10: extractKey(x) is x when x contains no '/', and the part of x after
\* its last '/' when it does.
ExtractKeyIsPartAfterLastSlash ==
    extracted.done =>
        extracted.key =
            IF lastIndexOf(value, "/") = 0
            THEN value
            ELSE SubSeq(value, lastIndexOf(value, "/") + 1, Len(value))

\* C10 witness: extractKey of the URL s://h/u/b/p.j has given p.j
ExtractedKeyOfUrl ==
    /\ extracted.done
    /\ value = <<"s", ":", "/", "/", "h", "/", "u", "/", "b", "/", "p", ".", "j">>
    /\ extracted.key = <<"p", ".", "j">>

\* C11: extractKey is idempotent, extractKey(extractKey(x)) = extractKey(x),
\* and its result never contains '/'.
ExtractKeyIsIdempotent ==
    /\ extracted.done => ~includes(extracted.key, "/")
    /\ extracted.again => extracted.key2 = extracted.key

\* C11 witness: extractKey of the URL s://h/u/b/p.j gave p.j, and extractKey
\* of that gave p.j again
ExtractedTwiceFromUrl ==
    /\ extracted.again
    /\ value = <<"s", ":", "/", "/", "h", "/", "u", "/", "b", "/", "p", ".", "j">>
    /\ extracted.key # value
    /\ extracted.key2 = <<"p", ".", "j">>

EndsInSlash(s) == Len(s) >= 1 /\ s[Len(s)] = "/"

\* C12: in the classes that normalize keys (IkatV2, and Ikat with its batch
\* operations), a key or URL ending in '/' is not refused locally: remove,
\* each item of deleteMultiple and the deletion step of replace send the
\* delete request, with the empty key, and whether the deletion fails is
\* the remote's answer alone.
TrailingSlashIsSentAsEmptyKey ==
    \A p \in Procs :
        client.version # "IkatBuffer" =>
            /\ (call[p].op = "remove" /\ EndsInSlash(call[p].key)) =>
                  /\ Len(log[p]) = 1
                  /\ log[p][1].req.op = "remove" /\ log[p][1].req.key = <<>>
                  /\ pc[p] = "done" =>
                        /\ log[p][1].answered
                        /\ (outcome[p].kind = "reject") = ~log[p][1].ans.ok
            /\ (call[p].op = "replace" /\ call[p].oldUrl.present
                    /\ EndsInSlash(call[p].oldUrl.value)) =>
                  /\ Len(log[p]) >= 1
                  /\ log[p][1].req.op = "remove" /\ log[p][1].req.key = <<>>
            /\ call[p].op = "deleteMultiple" =>
                  \A i \in 1..Len(call[p].keys) :
                      EndsInSlash(call[p].keys[i]) =>
                          /\ (i <= iter[p] + 1 /\ pc[p] # "done") => i <= Len(log[p])
                          /\ pc[p] = "done" => i <= Len(log[p])
                          /\ i <= Len(log[p]) =>
                                /\ log[p][i].req.op = "remove"
                                /\ log[p][i].req.key = <<>>
                          /\ (pc[p] = "done" /\ i <= Len(outcome[p].results)) =>
                                outcome[p].results[i].success = log[p][i].ans.ok

\* C12 witness: IkatV2.remove of the key a/ has sent the empty key and has
\* rejected with the remote's refusal
RemoveOfTrailingSlashRefusedByRemote ==
    \E p \in Procs :
        /\ client.version = "IkatV2" /\ call[p].op = "remove"
        /\ call[p].key = <<"a", "/">>
        /\ pc[p] = "done"
        /\ log[p][1].req.key = <<>>
        /\ log[p][1].ans.hasResponse /\ ~log[p][1].ans.ok
        /\ outcome[p].kind = "reject"

\* C13 as stated: every call of upload, list, remove or deleteBucket sends
\* exactly one request, whether it succeeds or fails.
SingleOpSendsExactlyOneRequest ==
    \A p \in Procs :
        (call[p].op \in Singles /\ pc[p] = "done") => Len(log[p]) = 1

\* C13 (amended): a call of list, remove or deleteBucket, and a call of
\* upload whose File (or Buffer) is read, sends exactly one request, whether
\* that request succeeds or fails, and never a second one; a call of upload
\* whose File cannot be read sends none.
SingleOpSendsOneRequestOnceRead ==
    \A p \in Procs :
        call[p].op \in Singles =>
            /\ Len(log[p]) <= 1
            /\ pc[p] = "inflight" => Len(log[p]) = 1
            /\ pc[p] = "done" =>
                  Len(log[p]) =
                      IF call[p].op = "upload" /\ ~call[p].file.readable THEN 0 ELSE 1

\* C13 witness: a list whose request failed has rejected after that one
\* request
ListRejectedAfterOneRequest ==
    \E p \in Procs :
        /\ call[p].op = "list" /\ pc[p] = "done"
        /\ Len(log[p]) = 1 /\ ~log[p][1].ans.ok
        /\ outcome[p].kind = "reject"

\* C14: when the request of upload, list, remove or deleteBucket succeeds,
\* the operation returns the decoded body of the response, unchanged.
SingleOpReturnsBodyUnchanged ==
    \A p \in Procs :
        (call[p].op \in Singles /\ pc[p] = "done" /\ Len(log[p]) = 1
                /\ log[p][1].ans.ok) =>
            /\ outcome[p].kind = "return"
            /\ outcome[p].data = log[p][1].ans.data
            /\ outcome[p].error = "" /\ outcome[p].results = <<>>

\* C14 witness: a remove of the Buffer based Ikat, answered with the body
\* d2, has returned d2
RemoveReturnedBody ==
    \E p \in Procs :
        /\ client.version = "IkatBuffer" /\ call[p].op = "remove"
        /\ pc[p] = "done"
        /\ log[p][1].ans = okAnswer("d2")
        /\ outcome[p] = [kind |-> "return", data |-> "d2", error |-> "",
                         results |-> <<>>]

\* the answer the upload request of replace p got (none: it was never sent)
UploadAnswer(p) ==
    IF Len(log[p]) >= 1 /\ log[p][Len(log[p])].req.op = "upload"
    THEN log[p][Len(log[p])].ans
    ELSE NoAnswer

TwinsDone ==
    /\ \A p \in Procs : call[p].op = "replace" /\ pc[p] = "done"
    /\ call[1] = call[2]
    /\ HasOldUrl(1)

\* C15: two runs of IkatV2.replace with the same arguments and the same
\* outcome of the upload settle with the same value or the same error,
\* whatever the deletion of the old key did in each.
ReplaceOutcomeHidesDeletion ==
    (TwinsDone /\ UploadAnswer(1) = UploadAnswer(2)) => outcome[1] = outcome[2]

\* C15 witness: of two such runs that both returned the upload's body, the
\* deletion failed in the first and succeeded in the second
TwinsDifferOnlyInDeletion ==
    /\ TwinsDone
    /\ UploadAnswer(1) = UploadAnswer(2)
    /\ ~log[1][1].ans.ok /\ log[2][1].ans.ok
    /\ log[1][1].req.op = "remove" /\ log[2][1].req.op = "remove"
    /\ outcome[1].kind = "return" /\ outcome[1] = outcome[2]

\* the number of items of the batch call p
Items(p) ==
    IF call[p].op = "deleteMultiple" THEN Len(call[p].keys) ELSE Len(call[p].files)

\* the single-item operation a batch applies to each item
ItemOp(p) == IF call[p].op = "deleteMultiple" THEN "remove" ELSE "upload"

Batches == {"deleteMultiple", "uploadMultiple"}

\* C16 as stated: deleteMultiple and uploadMultiple over n items send
\* exactly n requests, one per item.
BatchSendsExactlyOneRequestPerItem ==
    \A p \in Procs :
        (call[p].op \in Batches /\ pc[p] = "done") => Len(log[p]) = Items(p)

\* C16 (amended): deleteMultiple over n items sends exactly n requests, one
\* delete request per item; uploadMultiple sends one upload request per file
\* that could be read (n when every file is read); neither ever sends a
\* request of another kind (no compensating request), whichever items fail.
BatchSendsOneRequestPerItemRead ==
    \A p \in Procs :
        call[p].op \in Batches =>
            /\ \A i \in 1..Len(log[p]) : log[p][i].req.op = ItemOp(p)
            /\ call[p].op = "deleteMultiple" =>
                  /\ Len(log[p]) = iter[p] + (IF pc[p] = "inflight" THEN 1 ELSE 0)
                  /\ pc[p] = "done" => Len(log[p]) = Len(call[p].keys)
            /\ call[p].op = "uploadMultiple" =>
                  /\ Len(log[p]) = Sent(call[p].files, iter[p])
                                      + (IF pc[p] = "inflight" THEN 1 ELSE 0)
                  /\ pc[p] = "done" =>
                        Len(log[p]) = Sent(call[p].files, Len(call[p].files))

\* C16 witness: an uploadMultiple of two files has returned after two upload
\* requests, the first of which succeeded and the second of which failed
BatchLeftFirstItemApplied ==
    \E p \in Procs :
        /\ call[p].op = "uploadMultiple" /\ pc[p] = "done"
        /\ Len(call[p].files) = 2 /\ Len(log[p]) = 2
        /\ log[p][1].ans.ok /\ ~log[p][2].ans.ok
        /\ \A i \in 1..2 : log[p][i].req.op = "upload"

\* the messages an error wrapped by operation op can carry for the answer a
Messages(op, a) == {"[" \o op \o "] " \o d : d \in {a.remoteMessage, a.message}}

\* C17: a failed entry of a batch result is { key or file, success: false,
\* error } with error the message of the error caught for the item ('[remove]
\* ...', '[upload] ...' when the request failed) and no data; a successful
\* uploadMultiple entry is { file, success: true, data } with data the body
\* of that upload and no error; a successful deleteMultiple entry is
\* { key, success: true } with the normalized key and nothing else.
BatchEntriesHaveDocumentedShape ==
    \A p \in Procs :
        /\ (call[p].op = "deleteMultiple" /\ pc[p] = "done") =>
              \A i \in 1..Len(outcome[p].results) :
                  LET e == outcome[p].results[i]
                      a == log[p][i].ans
                  IN  IF a.ok
                      THEN e = [key |-> extractKey(call[p].keys[i]), success |-> TRUE]
                      ELSE /\ DOMAIN e = {"key", "success", "error"}
                           /\ e.key = extractKey(call[p].keys[i])
                           /\ e.success = FALSE
                           /\ e.error \in Messages("remove", a)
        /\ (call[p].op = "uploadMultiple" /\ pc[p] = "done") =>
              \A i \in 1..Len(outcome[p].results) :
                  LET e == outcome[p].results[i]
                      f == call[p].files[i]
                  IN  IF f.readable /\ log[p][Sent(call[p].files, i)].ans.ok
                      THEN e = [file |-> f.name, success |-> TRUE,
                                data |-> log[p][Sent(call[p].files, i)].ans.data]
                      ELSE /\ DOMAIN e = {"file", "success", "error"}
                           /\ e.file = f.name
                           /\ e.success = FALSE
                           /\ IF f.readable
                              THEN e.error \in
                                     Messages("upload", log[p][Sent(call[p].files, i)].ans)
                              ELSE e.error = ReadError

\* C17 witness: a deleteMultiple has returned a failed entry with the
\* caught message followed by a successful entry
DeleteMultipleReturnedBothShapes ==
    \E p \in Procs :
        /\ call[p].op = "deleteMultiple" /\ pc[p] = "done"
        /\ Len(outcome[p].results) = 2
        /\ outcome[p].results[1] =
              [key |-> <<"a">>, success |-> FALSE, error |-> "[remove] Network Error"]
        /\ outcome[p].results[2] = [key |-> <<>>, success |-> TRUE]

\* the client of the other class that has deleteMultiple, same key and origin
otherClient(c) ==
    constructor(IF c.version = "IkatV2" THEN "Ikat" ELSE "IkatV2", c.key, c.origin)

ConfigurationIsImmutable == [][client' = client]_vars

\* C19 witness: an operation of a client built with key k2 and origin o1 has
\* failed, and the client still holds what it was built with
FailedOnConfiguredClient ==
    \E p \in Procs :
        /\ pc[p] = "done" /\ outcome[p].kind = "reject"
        /\ Len(log[p]) >= 1
        /\ client = constructor("IkatV2", "k2", "o1")

OwnAnswers(p) ==
    LET n == IF pc[p] = "inflight" THEN Len(log[p]) - 1 ELSE Len(log[p])
    IN  [i \in 1..n |-> log[p][i].ans]

\* the call p, run alone with the answers to its own requests
Alone(p) == alone(client, entered(client, Fresh, call[p]), call[p], OwnAnswers(p))

\* C21: two batch or compose calls running concurrently on one client do not
\* interfere: in every interleaving, what each call has collected and what it
\* returns is what it would have alone given the answers to its own requests;
\* no entry of one call is in, or missing from, the result of the other.
ConcurrentCallsDoNotInterfere ==
    \A p \in Procs :
        pc[p] \in {"inflight", "done"} =>
            /\ Alone(p).pc = pc[p]
            /\ Alone(p).iter = iter[p]
            /\ Alone(p).results = results[p]
            /\ Alone(p).outcome = outcome[p]
            /\ Len(Alone(p).log) = Len(log[p])
            /\ \A i \in 1..Len(log[p]) : Alone(p).log[i].req = log[p][i].req

\* C21 witness: a deleteMultiple has returned its two entries while an
\* uploadMultiple on the same client, one entry collected, awaits its
\* second upload
BatchReturnedBesideRunningBatch ==
    /\ call[1].op = "deleteMultiple" /\ pc[1] = "done"
    /\ Len(outcome[1].results) = 2
    /\ call[2].op = "uploadMultiple" /\ pc[2] = "inflight"
    /\ Len(results[2]) = 1 /\ Len(log[2]) = 2

\* the allowPublicAccess values of the upload requests of the call p
FlagsUploaded(p) ==
    {log[p][i].req.allowPublicAccess :
        i \in {j \in 1..Len(log[p]) : log[p][j].req.op = "upload"}}

\* C22: IkatV2.upload sends allowPublicAccess = true when the caller omits
\* it; upload, replace and uploadMultiple send the caller's value (true by
\* default) with every upload they perform, so all the uploads of one
\* uploadMultiple carry the same flag.
AllowPublicAccessIsForwarded ==
    \A p \in Procs :
        (client.version = "IkatV2"
           /\ call[p].op \in {"upload", "replace", "uploadMultiple"}) =>
            /\ FlagsUploaded(p) \subseteq
                  {IF call[p].allowPublicAccess = "undefined"
                   THEN "true"
                   ELSE call[p].allowPublicAccess}
            /\ Cardinality(FlagsUploaded(p)) <= 1

\* C22 witness: an uploadMultiple of IkatV2 called without allowPublicAccess
\* has returned after two uploads, both sent with allowPublicAccess = true
UploadMultipleDefaultedToPublic ==
    \E p \in Procs :
        /\ client.version = "IkatV2"
        /\ call[p].op = "uploadMultiple" /\ pc[p] = "done"
        /\ call[p].allowPublicAccess = "undefined"
        /\ Len(log[p]) = 2
        /\ log[p][1].req.allowPublicAccess = "true"
        /\ log[p][2].req.allowPublicAccess = "true"

\* the requests of the call p that are in flight
InFlight(p) == {i \in 1..Len(log[p]) : ~log[p][i].answered}

\* C24: a batch processes its items strictly one after the other: at most
\* one request of a deleteMultiple or uploadMultiple is in flight at any
\* time, and when the request of a later item is issued the requests of all
\* the items before it have completed, with success or not.
BatchRequestsAreSequential ==
    \A p \in Procs :
        call[p].op \in Batches =>
            /\ Cardinality(InFlight(p)) <= 1
            /\ \A i \in 1..Len(log[p]) : \A j \in 1..(i - 1) : log[p][j].answered
            /\ InFlight(p) # {} <=> pc[p] = "inflight"

\* C24 witness: the second removal of a deleteMultiple is in flight after
\* the first one failed
SecondRemovalInFlightAfterFailure ==
    \E p \in Procs :
        /\ call[p].op = "deleteMultiple" /\ pc[p] = "inflight"
        /\ Len(log[p]) = 2
        /\ log[p][1].answered /\ ~log[p][1].ans.ok
        /\ ~log[p][2].answered

\* C25: in replace with an oldUrl the deletion request is issued first, and
\* the upload request only once the deletion request has completed, with
\* success or with failure: the two are never in flight together and the
\* upload is never issued before the deletion.
ReplaceDeletesBeforeItUploads ==
    \A p \in Procs :
        (call[p].op = "replace" /\ HasOldUrl(p)) =>
            /\ Len(log[p]) >= 1 /\ log[p][1].req.op = "remove"
            /\ \A i \in 2..Len(log[p]) :
                  /\ log[p][i].req.op = "upload"
                  /\ log[p][1].answered
            /\ Cardinality(InFlight(p)) <= 1
            /\ pc[p] = "reading" => log[p][1].answered

\* C25 witness: the upload of a replace is in flight after its deletion
\* request failed
UploadInFlightAfterFailedDeletion ==
    \E p \in Procs :
        /\ call[p].op = "replace" /\ HasOldUrl(p) /\ pc[p] = "inflight"
        /\ Len(log[p]) = 2
        /\ log[p][1].req.op = "remove" /\ log[p][1].answered /\ ~log[p][1].ans.ok
        /\ log[p][2].req.op = "upload" /\ ~log[p][2].answered

\* the requests of the call p that have completed
Completed(p) == {i \in 1..Len(log[p]) : log[p][i].answered}

\* the Files of the call p that could be read
Readable(p) == {i \in 1..Len(call[p].files) : call[p].files[i].readable}

\* C26 as claimed, its counts: a deleteMultiple or uploadMultiple over n
\* items returns after exactly n completed requests, and a replace settles
\* after at most two.
CallEndsAfterOneRequestPerItem ==
    \A p \in Procs :
        pc[p] = "done" =>
            /\ call[p].op = "deleteMultiple" =>
                  Cardinality(Completed(p)) = Len(call[p].keys)
            /\ call[p].op = "uploadMultiple" =>
                  Cardinality(Completed(p)) = Len(call[p].files)
            /\ call[p].op = "replace" => Cardinality(Completed(p)) <= 2

\* C26, amended: every batch or compose call terminates provided each await
\* settles: deleteMultiple over n keys returns after exactly n completed
\* requests, uploadMultiple after one completed request for each File that
\* could be read (n when all n were), and replace returns or rejects after
\* at most two completed requests.
CallEndsAfterOneRequestPerItemRead ==
    /\ [](\A p \in Procs :
            pc[p] = "done" =>
                /\ outcome[p].kind \in {"return", "reject"}
                /\ InFlight(p) = {}
                /\ call[p].op = "deleteMultiple" =>
                      /\ Cardinality(Completed(p)) = Len(call[p].keys)
                      /\ outcome[p].kind = "return"
                /\ call[p].op = "uploadMultiple" =>
                      /\ Cardinality(Completed(p)) = Cardinality(Readable(p))
                      /\ outcome[p].kind = "return"
                /\ call[p].op = "replace" => Cardinality(Completed(p)) <= 2)
    /\ \A p \in Procs : (pc[p] \in {"reading", "inflight"}) ~> (pc[p] = "done")

\* C26 witness: an uploadMultiple over two Files, the first of which could
\* not be read, has returned its two entries after one completed request
UploadMultipleReturnedAfterOneRequest ==
    \E p \in Procs :
        /\ call[p].op = "uploadMultiple" /\ pc[p] = "done"
        /\ Len(call[p].files) = 2 /\ ~call[p].files[1].readable
        /\ Len(outcome[p].results) = 2
        /\ Cardinality(Completed(p)) = 1

\* what an upload can fail with underneath: the messages of a failed
\* request and of a failed read of the File
UploadFailures ==
    UNION {{a.remoteMessage, a.message} : a \in FailAnswers} \cup {ReadError}

\* C27: every error raised by upload has a message beginning "[upload] ",
\* whichever step of the upload failed, the read of the File before the
\* request is sent included.
UploadErrorsAreAllTagged ==
    \A p \in Procs :
        (call[p].op = "upload" /\ pc[p] = "done" /\ outcome[p].kind = "reject") =>
            outcome[p].error \in {"[upload] " \o d : d \in UploadFailures}

\* the upload inside the replace p of IkatV2 has failed: its File could not
\* be read, or its request failed
ReplaceUploadFailed(p) ==
    /\ client.version = "IkatV2" /\ call[p].op = "replace" /\ pc[p] = "done"
    /\ \/ ~call[p].file.readable
       \/ /\ last(p).req.op = "upload"
          /\ ~last(p).ans.ok

\* C28: when the upload inside replace fails, replace rejects with the
\* upload's own error, whose message begins "[upload] ", whether or not the
\* deletion of the old key succeeded, and it has issued no request after
\* the upload that failed.
ReplaceRejectsWithTaggedUploadError ==
    \A p \in Procs :
        ReplaceUploadFailed(p) =>
            /\ outcome[p].kind = "reject"
            /\ outcome[p].error \in {"[upload] " \o d : d \in UploadFailures}
            /\ \A i \in 1..Len(log[p]) :
                  log[p][i].req.op = "upload" => i = Len(log[p])

\* C29: the key sent to the remote is the normalized key the caller is told
\* about, normalization being applied twice on the way: in replace of Ikat
\* and of IkatV2 the key of the delete request is extractKey(oldUrl), for a
\* URL and for a bare filename alike (and it is the key of the warning of
\* IkatV2); in deleteMultiple the key of delete request i is the key field
\* of result entry i.
SentKeyIsTheKeyReported ==
    \A p \in Procs :
        /\ (call[p].op = "replace" /\ HasOldUrl(p)) =>
              /\ Len(log[p]) >= 1
              /\ log[p][1].req.op = "remove"
              /\ log[p][1].req.key = extractKey(call[p].oldUrl.value)
              /\ \A i \in 1..Len(console[p]) : console[p][i] = log[p][1].req.key
        /\ call[p].op = "deleteMultiple" =>
              /\ \A i \in 1..Len(results[p]) :
                    /\ i <= Len(log[p])
                    /\ log[p][i].req.op = "remove"
                    /\ log[p][i].req.key = results[p][i].key
              /\ pc[p] = "done" =>
                    /\ outcome[p].results = results[p]
                    /\ Len(log[p]) = Len(results[p])

\* C29 witness: a deleteMultiple given a URL and a path ending in '/' has
\* returned, the requests sent with the keys "a" and "" that its entries name
DeleteMultipleReportedSentKeys ==
    \E p \in Procs :
        /\ call[p].op = "deleteMultiple" /\ pc[p] = "done"
        /\ call[p].keys = <<<<"b", "/", "a">>, <<"a", "/">>>>
        /\ log[p][1].req.key = <<"a">> /\ outcome[p].results[1].key = <<"a">>
        /\ log[p][2].req.key = <<>> /\ outcome[p].results[2].key = <<>>

\* C23: against a remote that stores files per bucket, upload, list, remove
\* go as the full-flow test asserts: a successful upload reports the name of
\* the file; list of that bucket then returns and contains the uploaded
\* file; and remove, called with the last path segment of the returned URL,
\* succeeds and reports that same key.
FullFlowGoesAsTheTestAsserts ==
    /\ (flow.step = "upload" /\ pc[1] = "done" /\ outcome[1].kind = "return") =>
          /\ outcome[1].data.success
          /\ outcome[1].data.original = flow.file.name
    /\ (flow.step = "list" /\ pc[1] = "done") =>
          /\ outcome[1].kind = "return"
          /\ \E f \in outcome[1].data.files :
                f.original = flow.file.name /\ f.key = flow.uploadedKey
    /\ (flow.step = "remove" /\ pc[1] = "done") =>
          /\ outcome[1].kind = "return"
          /\ outcome[1].data.success
          /\ outcome[1].data.key = flow.uploadedKey
    /\ flow.step = "end" =>
          /\ flow.deleted.kind = "return"
          /\ flow.deleted.data.key = pop(split(flow.upload.url, "/"))
          /\ \A o \in remote[flow.bucket] : o.key # flow.uploadedKey

\* C23 witness: the test has run to its end on the Buffer-based Ikat, the
\* file stored beside an older object, listed, and removed under its key
FullFlowRanToItsEnd ==
    /\ client.version = "IkatBuffer"
    /\ flow.step = "end"
    /\ flow.uploadedKey = <<"a">>
    /\ Cardinality(flow.list.files) = 2
    /\ flow.deleted.kind = "return" /\ flow.deleted.data.key = <<"a">>

====
